---- MODULE Spec2Model ----
(***************************************************************************)
(* Model of bot.py: the Flask search API with a sliding-window rate        *)
(* limiter in front of /search and a library -> scrape -> dummy fallback   *)
(* cascade behind it.                                                      *)
(*                                                                         *)
(* The server is started with threaded=True (bot.py:282), so every request *)
(* runs rate_limit.wrapped in its own thread.  The limiter takes no lock;  *)
(* its statements are the steps of a worker below.  The list comprehension *)
(* of line 35 is modelled as one read of the list followed by one slice    *)
(* assignment.  The elapsed-time fields of the envelope (response_time,    *)
(* timestamp) are not modelled.                                            *)
(***************************************************************************)
EXTENDS Integers, Sequences, FiniteSets, TLC

VARIABLES clock, requests, HAS_GOOGLESEARCH, pc, now, live, request, last, admittedAt

vars == <<clock, requests, HAS_GOOGLESEARCH, pc, now, live, request, last, admittedAt>>

(* ------------------------------ bounds -------------------------------- *)
NumWorkers == 2
TickStep == 30
MaxTicks == 3
MaxYield == 2
MaxContainers == 3
MaxBurst == 12

(* ------------------------- program constants -------------------------- *)
\* line 28: the default of rate_limit, in force when the decorator of
\* /search is given no argument
max_per_minute_Default == 15

max_per_minute == 10
WindowSeconds == 60
DefaultNum == 5
MaxNum == 10
DefaultSleep == 2
MinSleep == 2

Workers == 1..NumWorkers
Times == {i * TickStep : i \in 0..MaxTicks}

(* --------------------------- Python helpers --------------------------- *)
Min(a, b) == IF a < b THEN a ELSE b
Max(a, b) == IF a > b THEN a ELSE b

\* seq[:k] of Python: a negative k counts from the end
PySliceTo(seq, k) ==
    IF k >= 0 THEN SubSeq(seq, 1, Min(k, Len(seq)))
    ELSE SubSeq(seq, 1, Max(Len(seq) + k, 0))

Digits == <<"0", "1", "2", "3", "4", "5", "6", "7", "8", "9">>
IsDigit(c) == \E i \in 1..10 : Digits[i] = c
DigitVal(c) == (CHOOSE i \in 1..10 : Digits[i] = c) - 1

RECURSIVE DigitsVal(_)
DigitsVal(s) ==
    IF s = <<>> THEN 0
    ELSE 10 * DigitsVal(SubSeq(s, 1, Len(s) - 1)) + DigitVal(s[Len(s)])

\* int(text) of Python on a string of characters: an optional sign and at
\* least one decimal digit; anything else raises ValueError (ok = FALSE)
PyInt(text) ==
    LET signed == text # <<>> /\ text[1] \in {"-", "+"}
        body == IF signed THEN Tail(text) ELSE text
        ok == body # <<>> /\ \A i \in 1..Len(body) : IsDigit(body[i])
    IN  [ok |-> ok,
         val |-> IF ~ok THEN 0
                 ELSE IF signed /\ text[1] = "-" THEN 0 - DigitsVal(body)
                 ELSE DigitsVal(body)]

\* a query-string parameter: absent, or present with its text
Absent == [present |-> FALSE, text |-> <<>>]
Param(text) == [present |-> TRUE, text |-> text]

\* int(request.args.get(name, default))
IntArg(param, default) ==
    IF param.present THEN PyInt(param.text) ELSE [ok |-> TRUE, val |-> default]

(* ----------------------------- rate limiter --------------------------- *)
\* variant: an entry exactly 60 seconds old is kept
LiveRequests_KeepsBoundary(reqs, t) == SelectSeq(reqs, LAMBDA req : t - req <= WindowSeconds)

\* [req for req in requests if now - req < 60]
LiveRequests(reqs, t) == SelectSeq(reqs, LAMBDA req : t - req < WindowSeconds)

\* len(requests) >= max_per_minute
WindowFull(reqs) == Len(reqs) >= max_per_minute

RateLimitResponse ==
    [status |-> 429, body |-> [error |-> "Rate limit exceeded. Try again in a minute."],
     calls |-> <<>>]

(* ------------------------------ backends ------------------------------ *)
KIND == "customsearch#result"

\* the records the handler builds from what the library generator yields
LibraryResults(n) ==
    [i \in 1..n |-> [title |-> "library title " \o ToString(i),
                     url |-> "https://lib.example/" \o ToString(i),
                     description |-> "library description",
                     kind |-> KIND]]

\* line 60
selectors == <<"div.g", "div.tF2Cxc", "div.rc">>

\* the containers soup.select(selectors[k]) returns, each with its selector
\* and its position on the page
Select(page, k) ==
    [i \in 1..Len(page.select[selectors[k]]) |->
        [sel |-> selectors[k], idx |-> i, elem |-> page.select[selectors[k]][i]]]

\* variant: the matches of all the selectors are put together
RECURSIVE Containers_Mixed(_, _)
Containers_Mixed(page, k) ==
    IF k > Len(selectors) THEN <<>>
    ELSE Select(page, k) \o Containers_Mixed(page, k + 1)

\* lines 61-66: the loop over the selectors from the k-th on; it stops at
\* the first selector with a match and ends with the (empty) matches of the
\* last one when none has any
RECURSIVE Containers(_, _)
Containers(page, k) ==
    IF k >= Len(selectors) \/ Select(page, k) # <<>> THEN Select(page, k)
    ELSE Containers(page, k + 1)

\* the text of an element of a container
ElemText(tag, c) == tag \o " of " \o c.sel \o " " \o ToString(c.idx)

\* the href of the container's first link, as the pieces '/url?q=' and '&'
\* cut it: a redirect form wraps the target
Href(c) ==
    IF c.elem.wrapped
    THEN <<"/url?q=", "https://site.example/" \o ToString(c.idx), "&", "sa=U">>
    ELSE <<"https://site.example/" \o ToString(c.idx)>>

RECURSIVE Join(_)
Join(pieces) == IF pieces = <<>> THEN "" ELSE Head(pieces) \o Join(Tail(pieces))

\* the pieces before the first occurrence of sep
RECURSIVE Before(_, _)
Before(pieces, sep) ==
    IF pieces = <<>> \/ Head(pieces) = sep THEN <<>>
    ELSE <<Head(pieces)>> \o Before(Tail(pieces), sep)

\* lines 76-77: link.split('/url?q=')[1].split('&')[0] when the link starts
\* with '/url?q='
Unwrap(href) ==
    IF href # <<>> /\ Head(href) = "/url?q="
    THEN Join(Before(Before(Tail(href), "/url?q="), "&"))
    ELSE Join(href)

\* lines 70-87: the record of one container
Extract(c) ==
    [title |-> IF c.elem.h3 THEN ElemText("h3", c)
               ELSE IF c.elem.a THEN ElemText("a", c)
               ELSE "No title",
     url |-> IF c.elem.a THEN Unwrap(Href(c)) ELSE "",
     description |-> IF c.elem.snippet THEN ElemText("snippet", c)
                     ELSE "No description available",
     kind |-> KIND]

\* variant: a container whose extraction raises ends the loop
RECURSIVE ExtractAll_Abort(_)
ExtractAll_Abort(cs) ==
    IF cs = <<>> \/ Head(cs).elem.broken THEN <<>>
    ELSE <<Extract(Head(cs))>> \o ExtractAll_Abort(Tail(cs))

\* lines 68-90: the loop over the containers; one whose extraction raises
\* is skipped (line 88)
RECURSIVE ExtractAll(_)
ExtractAll(cs) ==
    IF cs = <<>> THEN <<>>
    ELSE IF Head(cs).elem.broken THEN ExtractAll(Tail(cs))
    ELSE <<Extract(Head(cs))>> \o ExtractAll(Tail(cs))

\* direct_google_search: [] on any failure of the fetch (line 94), else the
\* records of containers[:num_results]
direct_google_search(query, num_results, page) ==
    IF page.fails THEN <<>>
    ELSE ExtractAll(PySliceTo(Containers(page, 1), num_results))

\* variant: the first title does not carry the query
dummy_search_results_FixedTitle(query) ==
    << [title |-> "Example result for: ",
        url |-> "https://example.com",
        description |-> "This is a sample result. The actual search might be blocked by Google or Render restrictions.",
        kind |-> KIND],
       [title |-> "Google Search API Documentation",
        url |-> "https://github.com/NvChad/example",
        description |-> "Documentation for using search APIs and handling restrictions.",
        kind |-> KIND] >>

dummy_search_results(query) ==
    << [title |-> "Example result for: " \o query,
        url |-> "https://example.com",
        description |-> "This is a sample result. The actual search might be blocked by Google or Render restrictions.",
        kind |-> KIND],
       [title |-> "Google Search API Documentation",
        url |-> "https://github.com/NvChad/example",
        description |-> "Documentation for using search APIs and handling restrictions.",
        kind |-> KIND] >>

(* ------------------------------ search_api ---------------------------- *)
ErrorResponse(code, msg) == [status |-> code, body |-> [error |-> msg], calls |-> <<>>]

\* variant: without the except clause of line 215 the exception escapes
LibraryStage_Uncaught(hasLib, lib) ==
    IF ~hasLib
    THEN [results |-> <<>>, method_used |-> "unknown", calls |-> <<>>, raised |-> FALSE]
    ELSE [results |-> LibraryResults(lib.yield),
          method_used |-> "googlesearch-library",
          calls |-> <<"library">>,
          raised |-> lib.raises]

\* lines 195-217: the library strategy.  lib.yield records are appended
\* while the generator is iterated; lib.raises tells whether the call or the
\* iteration then raises.  The except clause of line 215 catches it, so
\* nothing escapes to the handler of line 250 (raised = FALSE).
LibraryStage(hasLib, lib) ==
    IF ~hasLib
    THEN [results |-> <<>>, method_used |-> "unknown", calls |-> <<>>, raised |-> FALSE]
    ELSE [results |-> LibraryResults(lib.yield),
          method_used |-> IF lib.raises THEN "library-failed" ELSE "googlesearch-library",
          calls |-> <<"library">>,
          raised |-> FALSE]

\* variant: direct scraping is tried whatever the library gave
ScrapeGuard_Always(st) == TRUE

\* line 220: the condition under which direct scraping is tried
ScrapeGuard(st) == st.results = <<>> /\ st.method_used # "library-failed"

\* lines 219-226: the scrape strategy
ScrapeStage(st, query, num_results, page) ==
    IF st.raised \/ ~ScrapeGuard(st) THEN st
    ELSE LET found == direct_google_search(query, num_results, page)
         IN  [results |-> found,
              method_used |-> IF found # <<>> THEN "direct-scraping" ELSE "direct-failed",
              calls |-> Append(st.calls, "scrape"),
              raised |-> FALSE]

\* lines 228-231: the dummy strategy
DummyStage(st, query) ==
    IF st.raised \/ st.results # <<>> THEN st
    ELSE [results |-> dummy_search_results(query),
          method_used |-> "dummy-results",
          calls |-> Append(st.calls, "dummy"),
          raised |-> FALSE]

\* variant: the test is "query is None", which an empty q passes
MissingQuery_NoneOnly(req) == FALSE

\* line 183: not query
MissingQuery(req) == req.q = ""

\* line 186
ClampNum(n) == Min(n, MaxNum)

\* line 188
ClampSleep(n) == Max(n, MinSleep)

\* line 187
LangArg(param) == IF param.present THEN param.text ELSE "en"

\* lines 250-252: whatever escapes the body of search_api
ServiceUnavailable(calls) ==
    [status |-> 503, body |-> [error |-> "Search service temporarily unavailable"],
     calls |-> calls]

\* lines 176-252: the body of search_api for one request, given what the
\* library and the fetched page do when they are asked.  int() raising at
\* line 186 or 188 is caught at line 250.
search_api(req, hasLib, lib, page) ==
    IF MissingQuery(req) THEN ErrorResponse(400, "Missing 'q' parameter")
    ELSE LET num == IntArg(req.num, DefaultNum)
             sleep == IntArg(req.sleep, DefaultSleep)
         IN  IF ~num.ok \/ ~sleep.ok THEN ServiceUnavailable(<<>>)
             ELSE LET num_results == ClampNum(num.val)
                      st == DummyStage(
                                ScrapeStage(LibraryStage(hasLib, lib),
                                            req.q, num_results, page),
                                req.q)
                  IN  IF st.raised THEN ServiceUnavailable(st.calls)
                      ELSE [status |-> 200,
                            body |-> [query |-> req.q,
                                      parameters |-> [num_results |-> num_results,
                                                      lang |-> LangArg(req.lang),
                                                      sleep_interval |-> ClampSleep(sleep.val)],
                                      total_results |-> Len(st.results),
                                      results |-> st.results,
                                      method_used |-> st.method_used,
                                      note |-> "Results may be limited due to platform restrictions"],
                            calls |-> st.calls]

(* ------------------------------- routing ------------------------------ *)
\* the rules registered with @app.route, as path segments
SearchPath == <<"search">>
url_map == {<<>>, <<"docs">>, SearchPath, <<"health">>}

\* lines 118-136: the descriptor home() returns
home(hasLib) ==
    [status |-> 200,
     body |-> [version |-> "2.0.0",
               library_available |-> hasLib,
               endpoints |-> {"/search", "/search/<query>", "/health", "/docs"}],
     calls |-> <<>>]

\* lines 267-269
not_found == ErrorResponse(404, "Endpoint not found")

\* the answer to a GET of a path other than /search: the view of the rule
\* that matches it, or the 404 handler
View(path, hasLib) ==
    IF path \notin url_map THEN not_found
    ELSE IF path = <<>> THEN home(hasLib)
    ELSE IF path = <<"docs">> THEN [status |-> 200, body |-> [html |-> "docs"], calls |-> <<>>]
    ELSE [status |-> 200,
          body |-> [status |-> "healthy", version |-> "2.0.0", library_available |-> hasLib],
          calls |-> <<>>]

(* ------------------------------- inputs ------------------------------- *)
\* the paths other than /search that are requested
OtherPaths == {<<>>, <<"docs">>, <<"health">>, <<"search", "test">>,
               <<"search", "a%20b">>, <<"nope">>}

\* the requests and the library behaviour under which the scrape path runs
ScrapeRequests == [q : {"test"},
                   num : {Absent, Param(<<"0">>), Param(<<"1">>), Param(<<"-", "1">>)},
                   lang : {Absent}, sleep : {Absent}]
EmptyLib == {[yield |-> 0, raises |-> FALSE]}

NoRequest == [q |-> "", num |-> Absent, lang |-> Absent, sleep |-> Absent]

\* the one request the limiter specifications send
PlainRequests == {[q |-> "test", num |-> Absent, lang |-> Absent, sleep |-> Absent]}

Queries == {"", "test", "py"}
NumParams == {Absent, Param(<<"a", "b", "c">>), Param(<<"-", "3">>), Param(<<"0">>),
              Param(<<"1">>), Param(<<"9", "9", "9">>)}
SleepParams == {Absent, Param(<<"1", ".", "5">>), Param(<<"7">>)}
ApiRequests == [q : Queries, num : NumParams, lang : {Absent}, sleep : SleepParams]

LibOutcomes == [yield : 0..MaxYield, raises : BOOLEAN]
\* what a container of the fetched page holds
Full == [h3 |-> TRUE, a |-> TRUE, wrapped |-> FALSE, snippet |-> TRUE, broken |-> FALSE]
NoSnippet == [h3 |-> TRUE, a |-> TRUE, wrapped |-> FALSE, snippet |-> FALSE, broken |-> FALSE]
Redirect == [h3 |-> FALSE, a |-> TRUE, wrapped |-> TRUE, snippet |-> TRUE, broken |-> FALSE]
Bare == [h3 |-> FALSE, a |-> FALSE, wrapped |-> FALSE, snippet |-> FALSE, broken |-> FALSE]
Broken == [h3 |-> TRUE, a |-> TRUE, wrapped |-> FALSE, snippet |-> TRUE, broken |-> TRUE]

\* a page whose selectors match the given containers
Page(g, tf, rc) ==
    [fails |-> FALSE,
     select |-> [sel \in {"div.g", "div.tF2Cxc", "div.rc"} |->
                    IF sel = "div.g" THEN g ELSE IF sel = "div.tF2Cxc" THEN tf ELSE rc]]

\* the fetch fails (network error, timeout, non-2xx status)
FailedPage == [fails |-> TRUE,
               select |-> [sel \in {"div.g", "div.tF2Cxc", "div.rc"} |-> <<>>]]

\* pages with up to MaxContainers well-formed div.g containers
PageOutcomes == {FailedPage} \cup {Page([i \in 1..n |-> Full], <<>>, <<>>) : n \in 0..MaxContainers}

\* pages of any shape
ContainerLists ==
    UNION {[1..n -> {Full, NoSnippet, Redirect, Bare, Broken}] : n \in 0..MaxContainers}
RichPages ==
    {FailedPage} \cup {Page(g, tf, rc) : g \in ContainerLists,
                                         tf \in {<<>>, <<NoSnippet>>, <<Broken, Full>>},
                                         rc \in {<<>>, <<Redirect, Bare>>}}

\* backends that answer at once with one result
PlainLib == {[yield |-> 1, raises |-> FALSE]}
PlainPage == {Page(<<Full>>, <<>>, <<>>)}

NoResponse == [worker |-> 0]

(* -------------------------------- state ------------------------------- *)
Init ==
    /\ clock = 0
    /\ requests = <<>>
    /\ HAS_GOOGLESEARCH \in BOOLEAN
    /\ pc = [w \in Workers |-> "idle"]
    /\ now = [w \in Workers |-> 0]
    /\ live = [w \in Workers |-> <<>>]
    /\ request = [w \in Workers |-> NoRequest]
    /\ last = NoResponse
    /\ admittedAt = [t \in Times |-> 0]

\* time passes
Tick(step) ==
    /\ clock + step \in Times
    /\ clock' = clock + step
    /\ UNCHANGED <<requests, HAS_GOOGLESEARCH, pc, now, live, request, last, admittedAt>>

\* a request for /search arrives and its thread runs line 33: now = time.time()
\* (the model stops sending requests at an instant that already has
\* MaxBurst admitted ones)
Begin(w, Reqs) ==
    /\ pc[w] = "idle"
    /\ admittedAt[clock] < MaxBurst
    /\ \E req \in Reqs : request' = [request EXCEPT ![w] = req]
    /\ now' = [now EXCEPT ![w] = clock]
    /\ pc' = [pc EXCEPT ![w] = "filter"]
    /\ last' = NoResponse
    /\ UNCHANGED <<clock, requests, HAS_GOOGLESEARCH, live, admittedAt>>

\* line 35, right-hand side: the comprehension reads the list
PruneRead(w) ==
    /\ pc[w] = "filter"
    /\ live' = [live EXCEPT ![w] = LiveRequests(requests, now[w])]
    /\ pc' = [pc EXCEPT ![w] = "assign"]
    /\ UNCHANGED <<clock, requests, HAS_GOOGLESEARCH, now, request, last, admittedAt>>

\* line 35, left-hand side: requests[:] = ...
PruneWrite(w) ==
    /\ pc[w] = "assign"
    /\ requests' = live[w]
    /\ live' = [live EXCEPT ![w] = <<>>]
    /\ pc' = [pc EXCEPT ![w] = "check"]
    /\ UNCHANGED <<clock, HAS_GOOGLESEARCH, now, request, last, admittedAt>>

\* the thread of a request ends and its locals go away
Return(w) ==
    /\ pc' = [pc EXCEPT ![w] = "idle"]
    /\ now' = [now EXCEPT ![w] = 0]
    /\ request' = [request EXCEPT ![w] = NoRequest]

\* variant: the refused attempt is recorded too
Refuse_Records(w) ==
    /\ pc[w] = "check"
    /\ WindowFull(requests)
    /\ requests' = Append(requests, now[w])
    /\ last' = [worker |-> w, path |-> SearchPath, now |-> now[w], req |-> request[w],
                out |-> RateLimitResponse]
    /\ Return(w)
    /\ UNCHANGED <<clock, HAS_GOOGLESEARCH, live, admittedAt>>

\* lines 36-37: the window is full, the request is answered 429
Refuse(w) ==
    /\ pc[w] = "check"
    /\ WindowFull(requests)
    /\ last' = [worker |-> w, path |-> SearchPath, now |-> now[w], req |-> request[w],
                out |-> RateLimitResponse]
    /\ Return(w)
    /\ UNCHANGED <<clock, requests, HAS_GOOGLESEARCH, live, admittedAt>>

\* line 36: the window has room
Pass(w) ==
    /\ pc[w] = "check"
    /\ ~WindowFull(requests)
    /\ pc' = [pc EXCEPT ![w] = "append"]
    /\ UNCHANGED <<clock, requests, HAS_GOOGLESEARCH, now, live, request, last, admittedAt>>

\* variant: the request goes on to f without being recorded
Record_Skip(w) ==
    /\ pc[w] = "append"
    /\ pc' = [pc EXCEPT ![w] = "call"]
    /\ UNCHANGED <<clock, requests, HAS_GOOGLESEARCH, now, live, request, last, admittedAt>>

\* line 38: requests.append(now); from here on the request is admitted
Record(w) ==
    /\ pc[w] = "append"
    /\ requests' = Append(requests, now[w])
    /\ admittedAt' = [admittedAt EXCEPT ![now[w]] = @ + 1]
    /\ pc' = [pc EXCEPT ![w] = "call"]
    /\ UNCHANGED <<clock, HAS_GOOGLESEARCH, now, live, request, last>>

\* line 39: return f(*args, **kwargs), the whole of search_api
Serve(w, Libs, Pages) ==
    /\ pc[w] = "call"
    /\ \E lib \in Libs, page \in Pages :
           last' = [worker |-> w, path |-> SearchPath, now |-> now[w], req |-> request[w],
                    lib |-> lib, page |-> page,
                    out |-> search_api(request[w], HAS_GOOGLESEARCH, lib, page)]
    /\ Return(w)
    /\ UNCHANGED <<clock, requests, HAS_GOOGLESEARCH, live, admittedAt>>

\* a GET of another path: no rate limiter, the view or the 404 handler answers
Visit(w, Paths) ==
    /\ pc[w] = "idle"
    /\ \E path \in Paths :
           last' = [worker |-> w, path |-> path, out |-> View(path, HAS_GOOGLESEARCH)]
    /\ UNCHANGED <<clock, requests, HAS_GOOGLESEARCH, pc, now, live, request, admittedAt>>

\* the steps of rate_limit.wrapped between arrival and the call of f
Limiter(w) == PruneRead(w) \/ PruneWrite(w) \/ Refuse(w) \/ Pass(w) \/ Record(w)

\* no other request is in flight
Alone(w) == \A v \in Workers \ {w} : pc[v] = "idle"

(* the server as started by app.run(threaded=True): requests interleave *)
Next ==
    \/ Tick(2 * TickStep)
    \/ \E w \in Workers : Begin(w, PlainRequests)
    \/ \E w \in Workers : Limiter(w)
    \/ \E w \in Workers : Serve(w, PlainLib, PlainPage)

Spec == Init /\ [][Next]_vars

(* one request at a time: the limiter as a sequence of admission attempts *)
NextSeq ==
    \/ Tick(TickStep)
    \/ \E w \in Workers : Alone(w) /\ Begin(w, PlainRequests)
    \/ \E w \in Workers : Alone(w) /\ Limiter(w)
    \/ \E w \in Workers : Alone(w) /\ Serve(w, PlainLib, PlainPage)

SpecSeq == Init /\ [][NextSeq]_vars

(* one request at a time, every request and every backend behaviour *)
NextApi ==
    \/ \E w \in Workers : Alone(w) /\ Begin(w, ApiRequests)
    \/ \E w \in Workers : Alone(w) /\ Limiter(w)
    \/ \E w \in Workers : Alone(w) /\ Serve(w, LibOutcomes, PageOutcomes)
    \/ \E w \in Workers : Alone(w) /\ Visit(w, OtherPaths)

SpecApi == Init /\ [][NextApi]_vars

(* one request at a time, the library giving nothing, every shape of page *)
NextScrape ==
    \/ \E w \in Workers : Alone(w) /\ Begin(w, ScrapeRequests)
    \/ \E w \in Workers : Alone(w) /\ Limiter(w)
    \/ \E w \in Workers : Alone(w) /\ Serve(w, EmptyLib, RichPages)

SpecScrape == Init /\ [][NextScrape]_vars

(* ------------------------------ properties ---------------------------- *)
RECURSIVE SumAt(_)
SumAt(S) == IF S = {} THEN 0
            ELSE LET t == CHOOSE x \in S : TRUE IN admittedAt[t] + SumAt(S \ {t})

\* the number of attempts admitted with a timestamp in the 60 seconds up to t
AdmittedWithin(t) == SumAt({s \in Times : s <= t /\ t - s < WindowSeconds})

\* the last request was one for /search and has been answered
Answered == last.worker # 0 /\ last.path = SearchPath
Refused == Answered /\ last.out.status = 429
Served == Answered /\ last.out.status # 429
Ok == Answered /\ last.out.status = 200

WellFormedParams(req) ==
    /\ IntArg(req.num, DefaultNum).ok
    /\ IntArg(req.sleep, DefaultSleep).ok

\* C1: with one attempt at a time, an attempt is refused exactly when
\* max_per_minute attempts were already admitted in the 60 seconds up to it:
\* the first max_per_minute of a burst are admitted, the next one is refused,
\* and an attempt made 60 or more seconds after the recorded ones is admitted.
BurstThenRefusal ==
    /\ Refused => AdmittedWithin(last.now) = max_per_minute
    /\ Served => AdmittedWithin(last.now) <= max_per_minute

\* a full burst at time 0, then, 60 or more seconds later, a second full
\* burst was admitted and the attempt after it refused
BurstThenRefusalWitness ==
    /\ Refused
    /\ last.now >= WindowSeconds
    /\ admittedAt[0] = max_per_minute

\* C2: the rate window never holds more entries than the maximum.
WindowWithinMaximum == Len(requests) <= max_per_minute

\* C3: the number of requests admitted within any 60 seconds never exceeds
\* the maximum, however the admission checks of two workers interleave.
AdmissionsSerialized == \A t \in Times : AdmittedWithin(t) <= max_per_minute

\* C4: when the library yields at least one result, method_used is the
\* library tag and the scrape backend is not invoked.
LibraryResultsTagged ==
    (Ok /\ HAS_GOOGLESEARCH /\ last.lib.yield >= 1)
        => /\ last.out.body.method_used = "googlesearch-library"
           /\ \A i \in 1..Len(last.out.calls) : last.out.calls[i] # "scrape"

\* C5: when the library is available and its attempt leaves no result (an
\* error or an empty result set), the scrape backend is invoked before any
\* placeholder result is produced.
LibraryFailureTriesScrape ==
    (Ok /\ HAS_GOOGLESEARCH /\ last.lib.yield = 0)
        => \E i \in 1..Len(last.out.calls) :
               /\ last.out.calls[i] = "scrape"
               /\ \A j \in 1..i : last.out.calls[j] # "dummy"

\* the placeholder entries for a query, written out
PlaceholderFor(q) ==
    << [title |-> "Example result for: " \o q,
        url |-> "https://example.com",
        description |-> "This is a sample result. The actual search might be blocked by Google or Render restrictions.",
        kind |-> "customsearch#result"],
       [title |-> "Google Search API Documentation",
        url |-> "https://github.com/NvChad/example",
        description |-> "Documentation for using search APIs and handling restrictions.",
        kind |-> "customsearch#result"] >>

LibraryGaveNothing == ~HAS_GOOGLESEARCH \/ last.lib.yield = 0
ScrapeGaveNothing ==
    last.page.fails \/ \A sel \in DOMAIN last.page.select : last.page.select[sel] = <<>>

\* C6: when neither the library nor the scrape backend gives a result, a
\* valid request is answered 200 with method_used = dummy-results and the
\* two placeholder entries, which depend on the query alone and whose first
\* title carries it.
PlaceholderWhenBothFail ==
    (Served /\ ~MissingQuery(last.req) /\ WellFormedParams(last.req)
        /\ LibraryGaveNothing /\ ScrapeGaveNothing)
        => /\ last.out.status = 200
           /\ last.out.body.method_used = "dummy-results"
           /\ last.out.body.results = PlaceholderFor(last.req.q)
           /\ last.out.body.total_results = 2

\* the library returned nothing, the fetch failed, q = test
PlaceholderWhenBothFailWitness ==
    /\ Ok
    /\ last.req.q = "test"
    /\ HAS_GOOGLESEARCH /\ last.lib.yield = 0 /\ ~last.lib.raises
    /\ last.page.fails
    /\ last.out.body.method_used = "dummy-results"

EnvelopeKeys == {"query", "parameters", "total_results", "results", "method_used", "note"}
ResultKeys == {"title", "url", "description", "kind"}
Methods == {"googlesearch-library", "library-failed", "direct-scraping", "dummy-results"}

WellFormedEnvelope(out) ==
    /\ DOMAIN out.body = EnvelopeKeys
    /\ out.body.total_results = Len(out.body.results)
    /\ out.body.results # <<>>
    /\ \A i \in 1..Len(out.body.results) :
           /\ DOMAIN out.body.results[i] = ResultKeys
           /\ out.body.results[i].kind = "customsearch#result"
    /\ out.body.method_used \in Methods
    /\ DOMAIN out.body.parameters = {"num_results", "lang", "sleep_interval"}

\* C7: no failure of a search strategy gives a 5xx: an admitted request with
\* a non-empty q and integer parameters is answered 200 with a well-formed
\* envelope whatever the backends do, and a 5xx response never follows the
\* invocation of a strategy.
BackendFailureNever5xx ==
    /\ (Served /\ ~MissingQuery(last.req) /\ WellFormedParams(last.req))
           => last.out.status = 200 /\ WellFormedEnvelope(last.out)
    /\ (Served /\ last.out.status >= 500) => last.out.calls = <<>>

\* the library raised, the fetch would fail, and the answer is 200
BackendFailureNever5xxWitness ==
    /\ Ok
    /\ HAS_GOOGLESEARCH /\ last.lib.raises /\ last.page.fails
    /\ last.out.calls # <<>>

\* C8: a request with a missing q or with a num or sleep that is not an
\* integer is answered 400 and no strategy is invoked.
ValidationAnswered400 ==
    (Served /\ (MissingQuery(last.req) \/ ~WellFormedParams(last.req)))
        => last.out.status = 400 /\ last.out.calls = <<>>

\* C9 as stated: every request without q is answered 400 with the
\* missing-q body, in every state of the server.
MissingQueryAlways400 ==
    (Answered /\ last.req.q = "")
        => /\ last.out.status = 400
           /\ last.out.body = [error |-> "Missing 'q' parameter"]

\* C9: every request without q that the rate limiter admits is answered 400
\* with the missing-q body.
MissingQueryAdmitted400 ==
    (Served /\ last.req.q = "")
        => /\ last.out.status = 400
           /\ last.out.body = [error |-> "Missing 'q' parameter"]

\* an admitted request without q, answered while the window holds entries
MissingQueryAdmitted400Witness ==
    /\ Served
    /\ last.req.q = ""
    /\ last.out.status = 400
    /\ Len(requests) > 1

\* C10: the result-count bound echoed as parameters.num_results lies in
\* 1..10 for every integer num.
NumResultsInRange ==
    Ok => /\ last.out.body.parameters.num_results >= 1
          /\ last.out.body.parameters.num_results <= MaxNum

\* the number of entries of the window that carry the timestamp t
CountAt(t) == Len(SelectSeq(requests, LAMBDA req : req = t))

\* C11 as stated: the first 429 of /search comes after 20 admitted calls of
\* one window.
LimitTwenty == Refused => AdmittedWithin(last.now) = 20

\* C11: the limit of /search is 10: of rapid calls made one after another,
\* ten are answered 200, 400 or 503 and the eleventh is the first answered
\* 429.
LimitTen ==
    /\ Refused => AdmittedWithin(last.now) = 10
    /\ Served => /\ AdmittedWithin(last.now) <= 10
                 /\ last.out.status \in {200, 400, 503}

\* the eleventh call of an instant is refused
LimitTenWitness ==
    /\ Refused
    /\ admittedAt[0] = 10
    /\ Len(requests) = 10

\* C12: a refused attempt leaves no record: after a refusal the window holds
\* exactly the attempts admitted in the 60 seconds up to it, and nothing for
\* the refused attempt or for older ones.
RefusalLeavesNoRecord ==
    Refused => \A t \in Times :
                   CountAt(t) = IF t <= last.now /\ last.now - t < WindowSeconds
                                THEN admittedAt[t] ELSE 0

\* a refusal at a later instant, the window holding entries of two instants
RefusalLeavesNoRecordWitness ==
    /\ Refused
    /\ last.now > 0
    /\ CountAt(0) > 0
    /\ CountAt(last.now) > 0

\* C13: a GET of /search/<query> with a non-empty path query is answered
\* 200 with the search envelope, never 404.
PathSearchServed ==
    (last.worker # 0 /\ Len(last.path) = 2 /\ last.path[1] = "search" /\ last.path[2] # "")
        => /\ last.out.status = 200
           /\ "results" \in DOMAIN last.out.body

TagOf(call) ==
    IF call = "library" THEN "googlesearch-library"
    ELSE IF call = "scrape" THEN "direct-scraping"
    ELSE "dummy-results"

\* C14: method_used names the strategy whose results are returned (the last
\* one invoked), never a '-failed' tag or 'unknown'.
MethodNamesSource ==
    Ok => /\ last.out.calls # <<>>
          /\ last.out.body.method_used = TagOf(last.out.calls[Len(last.out.calls)])

\* C15: a refused request invokes no strategy, and an admitted request has
\* its timestamp in the window whatever its outcome.
LimiterRunsFirst ==
    /\ Refused => last.out.calls = <<>> /\ last.out.body = [error |-> "Rate limit exceeded. Try again in a minute."]
    /\ Served => /\ requests # <<>>
                 /\ requests[Len(requests)] = last.now
                 /\ Len(requests) = AdmittedWithin(last.now)

\* a request answered 400 took the last slot of the window
LimiterRunsFirstWitness ==
    /\ Served
    /\ last.out.status = 400
    /\ Len(requests) = max_per_minute

Rank(call) == IF call = "library" THEN 1 ELSE IF call = "scrape" THEN 2 ELSE 3
Called(call) == \E i \in 1..Len(last.out.calls) : last.out.calls[i] = call

\* C16: the strategies are attempted at most once each, in the order
\* library, scrape, placeholder; a later one only when the earlier ones left
\* no result; the library not at all when it is unavailable.
StrategyOrder ==
    Ok => /\ \A i, j \in 1..Len(last.out.calls) :
                 i < j => Rank(last.out.calls[i]) < Rank(last.out.calls[j])
          /\ ~HAS_GOOGLESEARCH => ~Called("library")
          /\ (Called("scrape") \/ Called("dummy")) =>
                 (HAS_GOOGLESEARCH => Called("library") /\ last.lib.yield = 0)
          /\ (Called("dummy") /\ Called("scrape")) =>
                 direct_google_search(last.req.q, last.out.body.parameters.num_results,
                                      last.page) = <<>>

\* the three strategies were attempted, one after the other
StrategyOrderWitness ==
    /\ Ok
    /\ last.out.calls = <<"library", "scrape", "dummy">>

Scraped == Ok /\ last.out.body.method_used = "direct-scraping"

\* the first selector of div.g, div.tF2Cxc, div.rc that matches a container
FirstSelector ==
    IF last.page.select["div.g"] # <<>> THEN "div.g"
    ELSE IF last.page.select["div.tF2Cxc"] # <<>> THEN "div.tF2Cxc"
    ELSE "div.rc"

\* the title a container with a heading or a link gives
TitlesOf(sel, j) == {"h3 of " \o sel \o " " \o ToString(j), "a of " \o sel \o " " \o ToString(j)}

\* the result r comes from the j-th container of the selector sel
From(r, sel, j) == j \in 1..Len(last.page.select[sel]) /\ r.title \in TitlesOf(sel, j)

\* C17: the scraped results come from the containers of the first selector
\* that matches, in page order, and for num_results >= 0 there are at most
\* num_results of them.
SelectorCascade ==
    Scraped =>
        LET res == last.out.body.results
            n == last.out.body.parameters.num_results
            cap == Len(last.page.select[FirstSelector])
        IN  /\ \A i \in 1..Len(res) :
                   res[i].title = "No title" \/ \E j \in 1..cap : From(res[i], FirstSelector, j)
            /\ \A i1, i2 \in 1..Len(res) : \A j1, j2 \in 1..cap :
                   (i1 < i2 /\ From(res[i1], FirstSelector, j1) /\ From(res[i2], FirstSelector, j2))
                       => j1 < j2
            /\ n >= 0 => Len(res) <= n
            /\ Len(res) <= cap

\* div.g matches nothing, the two other selectors do, and the results are
\* those of div.tF2Cxc
SelectorCascadeWitness ==
    /\ Scraped
    /\ last.page.select["div.g"] = <<>>
    /\ last.page.select["div.tF2Cxc"] # <<>>
    /\ last.page.select["div.rc"] # <<>>

\* the positions of the chosen containers that are looked at for n >= 0
Looked(n) == {j \in 1..Len(last.page.select[FirstSelector]) : j <= n}
Sound(j) == ~last.page.select[FirstSelector][j].broken

\* C18: the scrape path never fails the request: a failed fetch or a page
\* without containers gives no scraped result and the answer is still 200; a
\* container whose extraction fails is skipped and the others are extracted;
\* a container without snippet gives its title and url with the default
\* description.
ScrapeNeverRaises ==
    (Served /\ Called("scrape")) =>
        LET res == last.out.body.results
            n == last.out.body.parameters.num_results
            sound == {j \in Looked(n) : Sound(j)}
        IN  /\ last.out.status = 200
            /\ (last.page.fails \/ last.page.select[FirstSelector] = <<>>) => ~Scraped
            /\ (~last.page.fails /\ n >= 0) =>
                   /\ Scraped <=> sound # {}
                   /\ Scraped => Len(res) = Cardinality(sound)
                   /\ \A j \in sound :
                          LET c == last.page.select[FirstSelector][j]
                          IN  (c.h3 /\ c.a /\ ~c.wrapped /\ ~c.snippet) =>
                                  \E i \in 1..Len(res) :
                                      /\ res[i].title = "h3 of " \o FirstSelector \o " " \o ToString(j)
                                      /\ res[i].url = "https://site.example/" \o ToString(j)
                                      /\ res[i].description = "No description available"

\* a container that fails is followed by one without snippet, and results
\* are returned
ScrapeNeverRaisesWitness ==
    /\ Scraped
    /\ Len(last.page.select["div.g"]) >= 2
    /\ last.page.select["div.g"][1].broken
    /\ last.page.select["div.g"][2] = NoSnippet
    /\ last.out.body.parameters.num_results >= 2

\* C19: the timestamp of an admitted request stays in the window until it
\* is 60 or more seconds old.
NoAdmissionLost ==
    \A t \in Times : (t <= clock /\ clock - t < WindowSeconds) => CountAt(t) >= admittedAt[t]

\* C20: the number of returned results does not exceed the bound echoed as
\* parameters.num_results.
ResultsWithinBound ==
    Ok => /\ last.out.body.total_results = Len(last.out.body.results)
          /\ last.out.body.total_results <= last.out.body.parameters.num_results

====
